---- MODULE Spec2Model ----
(***************************************************************************)
(* State-machine model of the MCP integration plugin (src/__init__.py).    *)
(*                                                                         *)
(* The plugin keeps three module-level globals (server_configs,            *)
(* service_status, mcp_cache) and reads its settings from the mounted      *)
(* MCPConfig object.  Every mounted entry point is one action; the helper  *)
(* coroutines are operators that thread the globals they touch through a   *)
(* record.  Remote servers, the clock and the host editing the settings    *)
(* are the environment.                                                    *)
(***************************************************************************)
EXTENDS Integers, Sequences, FiniteSets, TLC

\* ------------------------------------------------------------------ bounds
MaxTime == 2         \* clock ticks observed
MaxOps == 2          \* entry-point calls observed in one behaviour
MaxBatch == 3        \* requests in one batch
MaxDispatches == 1   \* batches observed in one behaviour

\* ------------------------------------------------------- input universes
Names == {"a", "b"}                  \* names a configuration may declare
RequestNames == Names \cup {"z"}      \* "z" is never configured
Chats == {"c1", "c2"}
Queries == {"q1"}
ToolNames == {"t1", "t2"}
ResourcePaths == {"r1", "r2", "r9"}

\* What a server answers to GET <endpoint>/health.
HealthResps == {"200_json", "200_unparsable", "500", "raise"}

\* What a server answers to POST <endpoint>/query or /execute.
\*   ok         200, JSON object, Content-Length within the limit
\*   oversized  200, JSON object, Content-Length above MAX_RESPONSE_SIZE
\*   malformed  200, body that response.json() cannot decode
\*   status     any status code other than 200
\*   timeout    httpx.TimeoutException
\*   closed     the connection fails because the peer closed the stream
\*              (httpx.RemoteProtocolError, a RequestError)
CallResps == {"ok", "oversized", "malformed", "status", "timeout", "closed"}

\* -------------------------------------------------------- MCPServerConfig
\* endpoint.startswith(("http://", "https://"))
HasScheme(endpoint) == endpoint \in {"http://a.host", "http://b.host"}

validate_endpoint(cfg) ==
    IF HasScheme(cfg.endpoint) THEN cfg
    ELSE [cfg EXCEPT !.endpoint = "http://" \o cfg.endpoint]

\* One element of the "servers" array as the user wrote it.  Server "a"
\* declares a tool allow-list and two resources, server "b" declares none;
\* "a" is written without a scheme, "b" with one.
ServerData(name, enabled) ==
    [valid |-> TRUE,
     name |-> name,
     endpoint |-> IF name = "a" THEN "a.host" ELSE "http://b.host",
     enabled |-> enabled,
     tools |-> IF name = "a" THEN {"t1"} ELSE {},
     resources |-> IF name = "a" THEN <<"/data/r1", "http://files/r2">> ELSE <<>>]

\* An element MCPServerConfig(**server_data) rejects (e.g. no "endpoint").
BadServerData ==
    [valid |-> FALSE, name |-> "", endpoint |-> "", enabled |-> FALSE,
     tools |-> {}, resources |-> <<>>]

\* "no server found": the None of next(..., None).
NoServer == BadServerData

\* The name is documented as the unique identifier of a service
\* (MCPServerConfig.name), so the texts tried declare each name once.
\* The "servers" arrays tried: none, one or two servers, enabled or not, with
\* and without an element that fails validation, before or after a valid one.
ServerLists ==
    {<<>>,
     <<ServerData("a", TRUE)>>,
     <<ServerData("a", FALSE)>>,
     <<ServerData("a", TRUE), ServerData("b", TRUE)>>,
     <<ServerData("a", FALSE), ServerData("b", TRUE)>>,
     <<BadServerData, ServerData("b", TRUE)>>,
     <<ServerData("a", TRUE), BadServerData>>}

\* MCP_CONFIG_JSON, classified by what json.loads and the shape test make of it.
ConfigTexts ==
    {[kind |-> k, servers |-> <<>>] :
        k \in {"invalid_json", "not_object", "no_servers", "servers_not_iterable"}}
    \cup {[kind |-> "object", servers |-> s] : s \in ServerLists}

DefaultConfigText == [kind |-> "object", servers |-> <<>>]

\* ------------------------------------------------- _parse_server_configs
\* Variant: the first entry that fails validation ends the loop with nothing.
RECURSIVE ParseEntriesAbort(_)
ParseEntriesAbort(servers_data) ==
    IF servers_data = <<>> THEN [ok |-> TRUE, configs |-> <<>>]
    ELSE IF ~Head(servers_data).valid THEN [ok |-> FALSE, configs |-> <<>>]
    ELSE LET rest == ParseEntriesAbort(Tail(servers_data))
         IN  [ok |-> rest.ok,
              configs |-> IF rest.ok
                          THEN <<validate_endpoint(Head(servers_data))>> \o rest.configs
                          ELSE <<>>]

\* The per-entry loop: an entry that fails validation is logged and skipped.
RECURSIVE ParseEntries(_)
ParseEntries(servers_data) ==
    IF servers_data = <<>> THEN [ok |-> TRUE, configs |-> <<>>]
    ELSE LET rest == ParseEntries(Tail(servers_data))
         IN  IF Head(servers_data).valid
             THEN [ok |-> TRUE,
                   configs |-> <<validate_endpoint(Head(servers_data))>> \o rest.configs]
             ELSE rest

\* Variant: every failure path resets the applied set.
ParseClearOnFailure(sc, text) ==
    IF text.kind # "object" THEN [ret |-> <<>>, server_configs |-> <<>>]
    ELSE LET parsed == ParseEntries(text.servers)
         IN  [ret |-> parsed.configs, server_configs |-> parsed.configs]

\* Returns the list handed to the caller and the new value of the global.
_parse_server_configs(sc, text) ==
    IF text.kind # "object"
    THEN [ret |-> <<>>, server_configs |-> sc]
    ELSE LET parsed == ParseEntries(text.servers)
         IN  IF parsed.ok
             THEN [ret |-> parsed.configs, server_configs |-> parsed.configs]
             ELSE [ret |-> <<>>, server_configs |-> sc]

\* "if not server_configs: _parse_server_configs()"
EnsureParsed(sc, text) ==
    IF sc = <<>> THEN _parse_server_configs(sc, text).server_configs ELSE sc

\* next((s for s in server_configs if <pred>), None)
RECURSIVE FirstNamed(_, _, _)
FirstNamed(sc, name, onlyEnabled) ==
    IF sc = <<>> THEN NoServer
    ELSE IF Head(sc).name = name /\ (onlyEnabled => Head(sc).enabled) THEN Head(sc)
    ELSE FirstNamed(Tail(sc), name, onlyEnabled)

\* ----------------------------------------------------- MCPServiceStatus
NoStatus ==
    [present |-> FALSE, endpoint |-> "", status |-> "", last_check |-> 0, error |-> ""]

MCPServiceStatus(endpoint, status, last_check, error) ==
    [present |-> TRUE, endpoint |-> endpoint, status |-> status,
     last_check |-> last_check, error |-> error]

\* One HTTP request as the remote side sees it.
Request(cfg, path) ==
    [server |-> cfg.name, endpoint |-> cfg.endpoint, path |-> path, enabled |-> cfg.enabled]

\* --------------------------------------------------- check_service_health
\* Variant: a 200 whose body cannot be parsed is taken for an error.
CheckHealthStrict(st, text, service_name, resp, now) ==
    LET sc == EnsureParsed(st.server_configs, text)
        server_config == FirstNamed(sc, service_name, FALSE)
        status ==
            IF ~server_config.valid
            THEN MCPServiceStatus("unknown", "error", now, "not_found")
            ELSE CASE resp = "200_json" ->
                        MCPServiceStatus(server_config.endpoint, "online", now, "")
                   [] resp \in {"200_unparsable", "500"} ->
                        MCPServiceStatus(server_config.endpoint, "error", now, "status_code")
                   [] OTHER ->
                        MCPServiceStatus(server_config.endpoint, "offline", now, "failed")
    IN  [server_configs |-> sc,
         service_status |-> [st.service_status EXCEPT ![service_name] = status],
         sent |-> IF server_config.valid
                  THEN Append(st.sent, Request(server_config, "/health"))
                  ELSE st.sent,
         status |-> status]

\* st = [server_configs, service_status, sent]; resp is the server's answer.
check_service_health(st, text, service_name, resp, now) ==
    LET sc == EnsureParsed(st.server_configs, text)
        server_config == FirstNamed(sc, service_name, FALSE)
        status ==
            IF ~server_config.valid
            THEN MCPServiceStatus("unknown", "error", now, "not_found")
            ELSE CASE resp = "200_json" ->
                        MCPServiceStatus(server_config.endpoint, "online", now, "")
                   [] resp = "200_unparsable" ->
                        MCPServiceStatus(server_config.endpoint, "online", now, "unparsable")
                   [] resp = "500" ->
                        MCPServiceStatus(server_config.endpoint, "error", now, "status_code")
                   [] OTHER ->
                        MCPServiceStatus(server_config.endpoint, "offline", now, "failed")
    IN  [server_configs |-> sc,
         service_status |-> [st.service_status EXCEPT ![service_name] = status],
         sent |-> IF server_config.valid
                  THEN Append(st.sent, Request(server_config, "/health"))
                  ELSE st.sent,
         status |-> status]

\* ------------------------------------------------------ results returned
\* The text an entry point hands back, by what it says: a code, the service
\* it names and the payload it carries.
Body(code, service, data) == [code |-> code, service |-> service, data |-> data]

NoBody == Body("", "", "")

ErrorCodes ==
    {"not_found", "unsupported_tool", "status_code", "too_large", "timeout",
     "connect_failed", "exception", "no_resources", "resource_not_found",
     "resource_unavailable"}

\* What one awaited httpx call plus the decoding that follows it produces:
\* either a body or the class of the exception raised inside the try block.
Outcome(exc, body) == [exc |-> exc, body |-> body]

\* Variant: the handlers for the named httpx errors only, no catch-all.
ExceptClausesNoCatchAll(outcome, service_name) ==
    CASE outcome.exc = "" -> [raised |-> FALSE, body |-> outcome.body]
      [] outcome.exc = "TimeoutException" ->
            [raised |-> FALSE, body |-> Body("timeout", service_name, "")]
      [] outcome.exc = "RequestError" ->
            [raised |-> FALSE, body |-> Body("connect_failed", service_name, "")]
      [] OTHER -> [raised |-> TRUE, body |-> NoBody]

\* except httpx.TimeoutException / except httpx.RequestError / except Exception
ExceptClauses(outcome, service_name) ==
    CASE outcome.exc = "" -> [raised |-> FALSE, body |-> outcome.body]
      [] outcome.exc = "TimeoutException" ->
            [raised |-> FALSE, body |-> Body("timeout", service_name, "")]
      [] outcome.exc = "RequestError" ->
            [raised |-> FALSE, body |-> Body("connect_failed", service_name, "")]
      [] OTHER -> [raised |-> FALSE, body |-> Body("exception", service_name, "")]

\* The size of an answer's payload against MAX_RESPONSE_SIZE.
ResponseSize(resp) == IF resp = "oversized" THEN "above_limit" ELSE "within_limit"

\* "return result.get("result", str(result))": the payload is handed back as
\* it came, so a returned result has the size of the answer.
ReturnedSize(body, resp) == IF body.code = "result" THEN ResponseSize(resp) ELSE ""

\* --------------------------------------------------- _prepare_mcp_request
_prepare_mcp_request(sc, text, service_name) ==
    LET parsed == EnsureParsed(sc, text)
    IN  [server_configs |-> parsed,
         server_config |-> FirstNamed(parsed, service_name, TRUE)]

\* ------------------------------------------------------ _call_mcp_service
\* The body of the try block of _call_mcp_service for one server answer.
QueryOutcome(server_config, service_name, query, resp) ==
    CASE resp = "ok" -> Outcome("", Body("result", server_config.name, query))
      [] resp = "oversized" -> Outcome("", Body("too_large", service_name, ""))
      [] resp = "status" -> Outcome("", Body("status_code", service_name, ""))
      [] resp = "malformed" -> Outcome("JSONDecodeError", NoBody)
      [] resp = "timeout" -> Outcome("TimeoutException", NoBody)
      [] OTHER -> Outcome("RequestError", NoBody)

_call_mcp_service(sc, text, service_name, query, resp) ==
    LET prep == _prepare_mcp_request(sc, text, service_name)
        server_config == prep.server_config
    IN  IF ~server_config.valid
        THEN [server_configs |-> prep.server_configs, raised |-> FALSE,
              body |-> Body("not_found", service_name, ""), sent |-> <<>>, clients |-> 0]
        ELSE LET done == ExceptClauses(
                             QueryOutcome(server_config, service_name, query, resp),
                             service_name)
             IN  [server_configs |-> prep.server_configs, raised |-> done.raised,
                  body |-> done.body,
                  sent |-> <<Request(server_config, "/query")>>, clients |-> 1]

\* ------------------------------------------------------ _execute_mcp_tool
\* The body of the try block of _execute_mcp_tool for one server answer; the
\* Content-Length is not looked at here.
ToolOutcome(server_config, service_name, tool_name, resp) ==
    CASE resp = "ok" -> Outcome("", Body("result", server_config.name, tool_name))
      [] resp = "oversized" -> Outcome("", Body("result", server_config.name, tool_name))
      [] resp = "status" -> Outcome("", Body("status_code", service_name, ""))
      [] resp = "malformed" -> Outcome("JSONDecodeError", NoBody)
      [] resp = "timeout" -> Outcome("TimeoutException", NoBody)
      [] OTHER -> Outcome("RequestError", NoBody)

\* Variant: any failed attempt is retried on a fresh client while the server
\* still has answers to give.
RECURSIVE ToolAttemptsRetryAll(_, _, _, _)
ToolAttemptsRetryAll(server_config, service_name, tool_name, resps) ==
    LET done == ExceptClauses(
                    ToolOutcome(server_config, service_name, tool_name, Head(resps)),
                    service_name)
        this == [raised |-> done.raised, body |-> done.body,
                 sent |-> <<Request(server_config, "/execute")>>, clients |-> 1]
    IN  IF done.body.code = "result" \/ Tail(resps) = <<>> THEN this
        ELSE LET more == ToolAttemptsRetryAll(server_config, service_name, tool_name,
                                              Tail(resps))
             IN  [raised |-> more.raised, body |-> more.body,
                  sent |-> this.sent \o more.sent, clients |-> 1 + more.clients]

\* The requests one _execute_mcp_tool call sends.  resps are the answers the
\* server would give to successive attempts; the code opens one AsyncClient,
\* posts once and reports whatever came of it.
ToolAttempts(server_config, service_name, tool_name, resps) ==
    LET done == ExceptClauses(
                    ToolOutcome(server_config, service_name, tool_name, Head(resps)),
                    service_name)
    IN  [raised |-> done.raised, body |-> done.body,
         sent |-> <<Request(server_config, "/execute")>>, clients |-> 1]

\* Variant: the tool name is forwarded without consulting the allow-list.
ExecuteNoAllowList(sc, text, service_name, tool_name, resps) ==
    LET prep == _prepare_mcp_request(sc, text, service_name)
        server_config == prep.server_config
    IN  IF ~server_config.valid
        THEN [server_configs |-> prep.server_configs, raised |-> FALSE,
              body |-> Body("not_found", service_name, ""), sent |-> <<>>, clients |-> 0]
        ELSE LET run == ToolAttempts(server_config, service_name, tool_name, resps)
             IN  [server_configs |-> prep.server_configs, raised |-> run.raised,
                  body |-> run.body, sent |-> run.sent, clients |-> run.clients]

_execute_mcp_tool(sc, text, service_name, tool_name, resps) ==
    LET prep == _prepare_mcp_request(sc, text, service_name)
        server_config == prep.server_config
    IN  IF ~server_config.valid
        THEN [server_configs |-> prep.server_configs, raised |-> FALSE,
              body |-> Body("not_found", service_name, ""), sent |-> <<>>, clients |-> 0]
        ELSE IF server_config.tools # {} /\ tool_name \notin server_config.tools
        THEN [server_configs |-> prep.server_configs, raised |-> FALSE,
              body |-> Body("unsupported_tool", service_name, tool_name),
              sent |-> <<>>, clients |-> 0]
        ELSE LET run == ToolAttempts(server_config, service_name, tool_name, resps)
             IN  [server_configs |-> prep.server_configs, raised |-> run.raised,
                  body |-> run.body, sent |-> run.sent, clients |-> run.clients]

\* ------------------------------------------------------- health-check loops
\* init_plugin: "for server in servers: if server.enabled: await
\* check_service_health(server.name)".  hresp[n] is what server n answers.
RECURSIVE InitLoop(_, _, _, _, _)
InitLoop(servers, st, text, hresp, now) ==
    IF servers = <<>> THEN st
    ELSE LET server == Head(servers)
             next == IF server.enabled
                     THEN check_service_health(st, text, server.name, hresp[server.name], now)
                     ELSE st
         IN  InitLoop(Tail(servers),
                      [server_configs |-> next.server_configs,
                       service_status |-> next.service_status,
                       sent |-> next.sent],
                      text, hresp, now)

\* mcp_prompt_inject / mcp_list_services: a server is checked again when it has
\* no status yet or its status is older than HEALTH_CHECK_INTERVAL.
RECURSIVE RefreshLoop(_, _, _, _, _, _)
RefreshLoop(active_servers, st, text, hresp, now, interval) ==
    IF active_servers = <<>> THEN st
    ELSE LET server == Head(active_servers)
             known == st.service_status[server.name]
             next == IF ~known.present \/ now - known.last_check > interval
                     THEN check_service_health(st, text, server.name, hresp[server.name], now)
                     ELSE st
         IN  RefreshLoop(Tail(active_servers),
                         [server_configs |-> next.server_configs,
                          service_status |-> next.service_status,
                          sent |-> next.sent],
                         text, hresp, now, interval)

IsEnabled(server) == server.enabled

\* The per-server lines of the prompt and of the service list: name and the
\* status shown for it.
Listing(active_servers, status) ==
    [i \in DOMAIN active_servers |->
        [name |-> active_servers[i].name,
         status |-> IF status[active_servers[i].name].present
                    THEN status[active_servers[i].name].status
                    ELSE "unknown"]]

\* --------------------------------------------------------- resource lookup
\* Path(r).name
Basename(resource) ==
    CASE resource = "/data/r1" -> "r1"
      [] resource = "http://files/r2" -> "r2"
      [] OTHER -> resource

\* is_url_path(resource)
is_url_path(resource) == resource = "http://files/r2"

\* "r.endswith(resource_path) or Path(r).name == resource_path": for the
\* bare file names requested here both tests say the same.
MatchesResource(resource, resource_path) == Basename(resource) = resource_path

\* ------------------------------------------- connection registry (design)
\* The streaming-session core (ServerConnection, ConnectionRegistry,
\* ConfigReconciler, BatchDispatcher, ContentNormalizer) as the design
\* document describes it.
\* A ServerConnection as constructed: its state, whether it holds a session
\* handle, the display name the server reported and the advertised tools.
NoConnection ==
    [state |-> "Disconnected", session |-> FALSE, display_name |-> "", tools |-> {}]

\* What a server reports about itself: its name and its tool catalog.
ReportedName(n) == "srv-" \o n
Catalogs == {{"t1"}, {"t1", "t2"}}

\* connect(), up to its suspension point: the transport is being opened.
ConnectBegin(conn) == [conn EXCEPT !.state = "Connecting"]

\* connect(), from there: the handshake succeeds and yields the session and
\* the server's name, or fails and everything acquired so far is released.
ConnectEnd(conn, handshake_ok, reported) ==
    IF handshake_ok
    THEN [conn EXCEPT !.state = "Connected", !.session = TRUE,
                      !.display_name = reported]
    ELSE [conn EXCEPT !.state = "Failed", !.session = FALSE]

connect(conn, handshake_ok, reported) ==
    LET done == ConnectEnd(ConnectBegin(conn), handshake_ok, reported)
    IN  [conn |-> done, raised |-> ~handshake_ok]

\* Variant: the catalog is stored whether or not there is a session.
LoadToolsUnguarded(conn, load_ok, catalog) ==
    IF load_ok THEN [conn |-> [conn EXCEPT !.tools = catalog], raised |-> FALSE]
    ELSE [conn |-> conn, raised |-> conn.state = "Connected"]

\* load_tools(): a no-op unless Connected; the catalog replaces the tool set.
load_tools(conn, load_ok, catalog) ==
    IF conn.state # "Connected" THEN [conn |-> conn, raised |-> FALSE]
    ELSE IF load_ok THEN [conn |-> [conn EXCEPT !.tools = catalog], raised |-> FALSE]
    ELSE [conn |-> conn, raised |-> TRUE]

\* What releasing the session and the transport runs into.
Releases == {"ok", "cross_task_cancel", "error"}

\* Variant: the release is run whatever the connection holds.
CloseUnguarded(conn, release) ==
    [conn |-> [conn EXCEPT !.state = "Disconnected", !.session = FALSE],
     raised |-> release = "error"]

\* close(): everything held is released on every path; the cross-task
\* cancellation error is logged, any other error propagates.  A connection
\* that holds nothing is already closed, and closing it is a no-op.
close(conn, release) ==
    IF ~conn.session THEN [conn |-> conn, raised |-> FALSE]
    ELSE [conn |-> [conn EXCEPT !.state = "Disconnected", !.session = FALSE],
          raised |-> release = "error"]

\* reconnect(): close() best-effort, then connect(), then load_tools().
reconnect(conn, release, handshake_ok, reported, load_ok, catalog) ==
    LET closed == close(conn, release).conn
        connected == connect(closed, handshake_ok, reported)
    IN  IF connected.raised THEN connected
        ELSE load_tools(connected.conn, load_ok, catalog)

\* What the remote tool does with one attempt.
Attempts == {"ok", "tool_error", "raises", "closed"}

\* Variant: a connection without a session is reconnected before the call.
CallToolReconnectsFirst(conn, first, second, release, handshake_ok, reported, load_ok, catalog) ==
    LET again == reconnect(conn, release, handshake_ok, reported, load_ok, catalog)
    IN  IF conn.state = "Connected" /\ first # "closed"
        THEN [conn |-> conn, raised |-> first = "raises", result |-> first, attempts |-> 1]
        ELSE IF again.raised
        THEN [conn |-> again.conn, raised |-> TRUE, result |-> "raises", attempts |-> 1]
        ELSE [conn |-> again.conn, raised |-> second \in {"raises", "closed"},
              result |-> second, attempts |-> 2]

\* call_tool(): fails when not Connected; an attempt that finds the stream
\* closed is followed by one reconnect() and one more attempt.
call_tool(conn, first, second, release, handshake_ok, reported, load_ok, catalog) ==
    IF conn.state # "Connected"
    THEN [conn |-> conn, raised |-> TRUE, result |-> "not_connected", attempts |-> 0]
    ELSE IF first # "closed"
    THEN [conn |-> conn, raised |-> first = "raises", result |-> first, attempts |-> 1]
    ELSE LET again == reconnect(conn, release, handshake_ok, reported, load_ok, catalog)
         IN  IF again.raised
             THEN [conn |-> again.conn, raised |-> TRUE, result |-> "raises", attempts |-> 1]
             ELSE [conn |-> again.conn, raised |-> second \in {"raises", "closed"},
                   result |-> second, attempts |-> 2]

\* A connection after connect() and load_tools() succeeded.
Provisioned(server) ==
    load_tools(connect(NoConnection, TRUE, ReportedName(server.name)).conn,
               TRUE, {"t1", "t2"}).conn

NoFingerprint == [kind |-> "none", servers |-> <<>>]

\* The texts are already classified by structure, so the canonical form of a
\* text is the text.
Fingerprint(text) == text

\* reconcile(raw_config_text); reachable are the servers whose handshake
\* succeeds.
Reconcile(reg, fp, text, reachable) ==
    IF text.kind # "object" THEN [registry |-> reg, fingerprint |-> fp]
    ELSE IF Fingerprint(text) = fp THEN [registry |-> reg, fingerprint |-> fp]
    ELSE LET descriptors == ParseEntries(text.servers).configs
             Wanted(n) == FirstNamed(descriptors, n, TRUE)
         IN  [registry |-> [n \in Names |->
                               IF Wanted(n).valid /\ n \in reachable
                               THEN Provisioned(Wanted(n)) ELSE NoConnection],
              fingerprint |-> Fingerprint(text)]

\* normalize(item): the segments one result item becomes.
Normalize(item) ==
    CASE item = "text" -> <<"text">>
      [] item = "image" -> <<"image">>
      [] item = "resource_text" -> <<"text">>
      [] item = "resource_blob" -> <<"image">>
      [] OTHER -> <<>>

RECURSIVE NormalizeAll(_)
NormalizeAll(content) ==
    IF content = <<>> THEN <<>>
    ELSE Normalize(Head(content)) \o NormalizeAll(Tail(content))

Segment(i, type, error) == [req |-> i, type |-> type, error |-> error]

\* An invocation request together with what call_tool does when it is reached:
\* "ok" with a content list, "tool_error", or "raises".
InvocationRequest(server_name, tool_name, status, content) ==
    [server_name |-> server_name, tool_name |-> tool_name,
     status |-> status, content |-> content]

Malformed(request) == request.server_name = "" \/ request.tool_name = ""

Known(request, reg) ==
    request.server_name \in DOMAIN reg /\ reg[request.server_name].session

\* The segments request number i contributes.
RequestSegments(request, i, reg) ==
    IF Malformed(request) \/ ~Known(request, reg) \/ request.status # "ok"
    THEN <<Segment(i, "text", TRUE)>>
    ELSE LET types == NormalizeAll(request.content)
         IN  [k \in DOMAIN types |-> Segment(i, types[k], FALSE)]

\* Variant: the batch is given up at the first request that fails.
RECURSIVE DispatchLoopShortCircuit(_, _, _, _, _)
DispatchLoopShortCircuit(requests, i, reg, out, called) ==
    IF i > Len(requests) THEN [segments |-> out, called |-> called]
    ELSE LET request == requests[i]
             reached == ~Malformed(request) /\ Known(request, reg)
             run == RequestSegments(request, i, reg)
             now_called == IF reached THEN Append(called, i) ELSE called
         IN  IF run # <<>> /\ run[1].error
             THEN [segments |-> out \o run, called |-> now_called]
             ELSE DispatchLoopShortCircuit(requests, i + 1, reg, out \o run, now_called)

\* dispatch(): the requests are worked off one after the other; called lists
\* the requests for which call_tool was invoked.
RECURSIVE DispatchLoop(_, _, _, _, _)
DispatchLoop(requests, i, reg, out, called) ==
    IF i > Len(requests) THEN [segments |-> out, called |-> called]
    ELSE LET request == requests[i]
             reached == ~Malformed(request) /\ Known(request, reg)
         IN  DispatchLoop(requests, i + 1, reg,
                          out \o RequestSegments(request, i, reg),
                          IF reached THEN Append(called, i) ELSE called)

\* ------------------------------------------------------------------ state
VARIABLES
    MCP_CONFIG_JSON,        \* config.MCP_CONFIG_JSON, as classified above
    CACHE_EXPIRY,           \* config.CACHE_EXPIRY
    HEALTH_CHECK_INTERVAL,  \* config.HEALTH_CHECK_INTERVAL
    server_configs,         \* global server_configs
    service_status,         \* global service_status
    mcp_cache,              \* global mcp_cache, keyed <<chat, service, query>>
    clock,                  \* time.time()
    registry,               \* connection registry: display name -> connection
    fingerprint,            \* fingerprint of the configuration last applied to it
    ops,                    \* entry-point calls made so far
    last,                   \* the latest entry-point call: arguments and outcome
    tasks,                  \* coroutines of entry points suspended in an await
    health_log              \* the /health requests those coroutines have sent

vars == <<MCP_CONFIG_JSON, CACHE_EXPIRY, HEALTH_CHECK_INTERVAL, server_configs,
          service_status, mcp_cache, registry, fingerprint, clock, ops, last,
          tasks, health_log>>

running == <<tasks, health_log>>

\* The coroutines that may be in flight at once.
Tasks == {"T1", "T2"}

\* A coroutine: where it stands, the entry point it runs and the servers its
\* refresh loop has still to look at, the first being the one it awaits.
IdleTask == [pc |-> "idle", op |-> "", queue |-> <<>>]

core == <<registry, fingerprint>>

globals == <<server_configs, service_status, mcp_cache>>
settings == <<MCP_CONFIG_JSON, CACHE_EXPIRY, HEALTH_CHECK_INTERVAL>>

CacheKeys == Chats \X RequestNames \X Queries

NoEntry == [present |-> FALSE, result |-> NoBody, timestamp |-> 0]

\* Values of the two integer settings that are tried.
CacheExpiries == {0, 2}
HealthIntervals == {0, 1}

\* The record kept of a call.  Fields a call does not use keep these values.
NoCall ==
    [op |-> "", service |-> "", chat |-> "", query |-> "", tool |-> "", path |-> "",
     resps |-> <<>>, text |-> DefaultConfigText, at |-> 0,
     pre_configs |-> <<>>, pre_cache |-> NoEntry,
     raised |-> FALSE, wrap |-> "", body |-> NoBody, listing |-> <<>>,
     sent |-> <<>>, clients |-> 0, batch |-> <<>>, segments |-> <<>>, called |-> <<>>,
     pre_conn |-> NoConnection, size |-> ""]

\* The plugin is loaded with whatever configuration text the host has stored.
Init ==
    /\ MCP_CONFIG_JSON \in ConfigTexts
    /\ CACHE_EXPIRY \in CacheExpiries
    /\ HEALTH_CHECK_INTERVAL \in HealthIntervals
    /\ server_configs = <<>>
    /\ service_status = [n \in RequestNames |-> NoStatus]
    /\ mcp_cache = [k \in CacheKeys |-> NoEntry]
    /\ registry = [n \in Names |-> NoConnection]
    /\ fingerprint = NoFingerprint
    /\ clock = 0
    /\ ops = 0
    /\ last = NoCall
    /\ tasks = [t \in Tasks |-> IdleTask]
    /\ health_log = <<>>

\* ------------------------------------------------------------ environment
\* The host's user replaces the configuration text in the settings page.  The
\* plugin sees the text only when a call reads it, so the edits made between
\* two calls count as one, and those made before the first call as the text
\* the plugin was loaded with.
EditTo(text) ==
    /\ last.op # ""
    /\ MCP_CONFIG_JSON = last.text
    /\ text # MCP_CONFIG_JSON
    /\ MCP_CONFIG_JSON' = text
    /\ UNCHANGED <<CACHE_EXPIRY, HEALTH_CHECK_INTERVAL, globals, core, running, clock, ops, last>>

\* A second passes.  Only differences of clock readings are ever used, so the
\* clock is started at the first call.
Pass ==
    /\ last.op # ""
    /\ clock < MaxTime
    /\ clock' = clock + 1
    /\ UNCHANGED <<settings, globals, core, running, ops, last>>

\* Common part of every call: it is counted and recorded.
Recorded(call) ==
    /\ ops' = ops + 1
    /\ last' = [call EXCEPT !.text = MCP_CONFIG_JSON, !.at = clock,
                            !.pre_configs = server_configs]
    /\ UNCHANGED <<settings, running, clock>>

\* An entry point of src/__init__.py: it has no access to the registry.
Called(call) == Recorded(call) /\ UNCHANGED core

\* ------------------------------------------------------------ init_plugin
InitCall(hresp) ==
    LET parsed == _parse_server_configs(server_configs, MCP_CONFIG_JSON)
        st == InitLoop(parsed.ret,
                       [server_configs |-> parsed.server_configs,
                        service_status |-> service_status, sent |-> <<>>],
                       MCP_CONFIG_JSON, hresp, clock)
    IN  /\ server_configs' = st.server_configs
        /\ service_status' = st.service_status
        /\ UNCHANGED mcp_cache
        /\ Called([NoCall EXCEPT !.op = "init_plugin", !.sent = st.sent])

\* ------------------------------------------------------ mcp_prompt_inject
PromptCall(hresp) ==
    LET sc == EnsureParsed(server_configs, MCP_CONFIG_JSON)
        active_servers == SelectSeq(sc, IsEnabled)
        st0 == [server_configs |-> sc, service_status |-> service_status, sent |-> <<>>]
        st == IF active_servers # <<>> /\ HEALTH_CHECK_INTERVAL > 0
              THEN RefreshLoop(active_servers, st0, MCP_CONFIG_JSON, hresp, clock,
                               HEALTH_CHECK_INTERVAL)
              ELSE st0
    IN  /\ server_configs' = st.server_configs
        /\ service_status' = st.service_status
        /\ UNCHANGED mcp_cache
        /\ Called([NoCall EXCEPT
                     !.op = "mcp_prompt_inject",
                     !.wrap = IF active_servers = <<>> THEN "no_services" ELSE "prompt",
                     !.listing = Listing(active_servers, st.service_status),
                     !.sent = st.sent])

\* ------------------------------------------------------ mcp_list_services
ListCall(hresp) ==
    LET sc == EnsureParsed(server_configs, MCP_CONFIG_JSON)
        active_servers == SelectSeq(sc, IsEnabled)
        st0 == [server_configs |-> sc, service_status |-> service_status, sent |-> <<>>]
        st == RefreshLoop(active_servers, st0, MCP_CONFIG_JSON, hresp, clock,
                          HEALTH_CHECK_INTERVAL)
    IN  /\ server_configs' = st.server_configs
        /\ service_status' = st.service_status
        /\ UNCHANGED mcp_cache
        /\ Called([NoCall EXCEPT
                     !.op = "mcp_list_services",
                     !.wrap = IF active_servers = <<>> THEN "no_services" ELSE "list",
                     !.listing = Listing(active_servers, st.service_status),
                     !.sent = st.sent])

\* ------------------------------------------------------- mcp_check_health
HealthCall(service_name, resp) ==
    LET st == check_service_health(
                  [server_configs |-> server_configs,
                   service_status |-> service_status, sent |-> <<>>],
                  MCP_CONFIG_JSON, service_name, resp, clock)
    IN  /\ server_configs' = st.server_configs
        /\ service_status' = st.service_status
        /\ UNCHANGED mcp_cache
        /\ Called([NoCall EXCEPT
                     !.op = "mcp_check_health", !.service = service_name,
                     !.wrap = "health",
                     !.body = Body(st.status.status, service_name, st.status.error),
                     !.resps = IF st.sent = <<>> THEN <<>> ELSE <<resp>>,
                     !.sent = st.sent])

\* -------------------------------------------------------------- mcp_query
\* Variant: one cache for all chats.
QueryCallSharedCache(chat_key, service_name, query, resp) ==
    LET key == <<"c1", service_name, query>>
        cache_entry == mcp_cache[key]
        call == [NoCall EXCEPT !.op = "mcp_query", !.chat = chat_key,
                               !.service = service_name, !.query = query,
                               !.pre_cache = cache_entry]
    IN  IF /\ cache_entry.present
           /\ CACHE_EXPIRY > 0
           /\ clock - cache_entry.timestamp < CACHE_EXPIRY
        THEN /\ UNCHANGED globals
             /\ Called([call EXCEPT !.wrap = "cached", !.body = cache_entry.result])
        ELSE LET r == _call_mcp_service(server_configs, MCP_CONFIG_JSON,
                                        service_name, query, resp)
             IN  /\ server_configs' = r.server_configs
                 /\ mcp_cache' = [mcp_cache EXCEPT ![key] =
                        [present |-> TRUE, result |-> r.body, timestamp |-> clock]]
                 /\ UNCHANGED service_status
                 /\ Called([call EXCEPT !.wrap = "query", !.raised = r.raised,
                                        !.body = r.body, !.sent = r.sent,
                                        !.clients = r.clients,
                                        !.size = ReturnedSize(r.body, resp),
                                        !.resps = IF r.sent = <<>> THEN <<>>
                                                  ELSE <<resp>>])

QueryCall(chat_key, service_name, query, resp) ==
    LET key == <<chat_key, service_name, query>>
        cache_entry == mcp_cache[key]
        call == [NoCall EXCEPT !.op = "mcp_query", !.chat = chat_key,
                               !.service = service_name, !.query = query,
                               !.pre_cache = cache_entry]
    IN  IF /\ cache_entry.present
           /\ CACHE_EXPIRY > 0
           /\ clock - cache_entry.timestamp < CACHE_EXPIRY
        THEN /\ UNCHANGED globals
             /\ Called([call EXCEPT !.wrap = "cached", !.body = cache_entry.result])
        ELSE LET r == _call_mcp_service(server_configs, MCP_CONFIG_JSON,
                                        service_name, query, resp)
             IN  /\ server_configs' = r.server_configs
                 /\ mcp_cache' = [mcp_cache EXCEPT ![key] =
                        [present |-> TRUE, result |-> r.body, timestamp |-> clock]]
                 /\ UNCHANGED service_status
                 /\ Called([call EXCEPT !.wrap = "query", !.raised = r.raised,
                                        !.body = r.body, !.sent = r.sent,
                                        !.clients = r.clients,
                                        !.size = ReturnedSize(r.body, resp),
                                        !.resps = IF r.sent = <<>> THEN <<>>
                                                  ELSE <<resp>>])

\* ------------------------------------------------------- mcp_execute_tool
\* Answers the server would give to a first and to a second attempt.
ToolResps == {<<r1, "ok">> : r1 \in CallResps} \cup {<<"closed", "closed">>}

ToolCall(service_name, tool_name, resps) ==
    LET r == _execute_mcp_tool(server_configs, MCP_CONFIG_JSON, service_name,
                               tool_name, resps)
    IN  /\ server_configs' = r.server_configs
        /\ UNCHANGED <<service_status, mcp_cache>>
        /\ Called([NoCall EXCEPT
                     !.op = "mcp_execute_tool", !.service = service_name,
                     !.tool = tool_name, !.wrap = "tool", !.raised = r.raised,
                     !.body = r.body, !.sent = r.sent, !.clients = r.clients,
                     !.size = ReturnedSize(r.body, resps[1]),
                     !.resps = IF r.sent = <<>> THEN <<>> ELSE resps])

\* ------------------------------------------------------- mcp_get_resource
ResourceCall(service_name, resource_path, exists) ==
    LET sc == EnsureParsed(server_configs, MCP_CONFIG_JSON)
        server_config == FirstNamed(sc, service_name, TRUE)
        IsMatch(r) == MatchesResource(r, resource_path)
        matched_resources == SelectSeq(server_config.resources, IsMatch)
        body ==
            IF ~server_config.valid THEN Body("not_found", service_name, "")
            ELSE IF server_config.resources = <<>>
            THEN Body("no_resources", service_name, "")
            ELSE IF matched_resources = <<>>
            THEN Body("resource_not_found", service_name, resource_path)
            ELSE IF is_url_path(matched_resources[1]) \/ exists
            THEN Body("resource", service_name, matched_resources[1])
            ELSE Body("resource_unavailable", service_name, resource_path)
    IN  /\ server_configs' = sc
        /\ UNCHANGED <<service_status, mcp_cache>>
        /\ Called([NoCall EXCEPT
                     !.op = "mcp_get_resource", !.service = service_name,
                     !.path = resource_path, !.wrap = "resource", !.body = body])

\* --------------------------------------------------------------- clean_up
\* Variant: the applied server set is forgotten about.
CleanUpKeepsConfigs ==
    /\ mcp_cache' = [k \in CacheKeys |-> NoEntry]
    /\ service_status' = [n \in RequestNames |-> NoStatus]
    /\ UNCHANGED server_configs
    /\ Called([NoCall EXCEPT !.op = "clean_up"])

CleanUpCall ==
    /\ mcp_cache' = [k \in CacheKeys |-> NoEntry]
    /\ service_status' = [n \in RequestNames |-> NoStatus]
    /\ server_configs' = <<>>
    /\ Called([NoCall EXCEPT !.op = "clean_up"])

\* ------------------------------------------------------ the plugin at work
\* Any entry point, with any argument, at most MaxOps calls in a behaviour;
\* the environment moves only while a call can still observe it.
EditConfig == ops < MaxOps /\ \E text \in ConfigTexts : EditTo(text)

Tick == ops < MaxOps /\ Pass

init_plugin == ops < MaxOps /\ \E hresp \in [Names -> HealthResps] : InitCall(hresp)

mcp_prompt_inject ==
    ops < MaxOps /\ \E hresp \in [Names -> HealthResps] : PromptCall(hresp)

mcp_list_services ==
    ops < MaxOps /\ \E hresp \in [Names -> HealthResps] : ListCall(hresp)

mcp_check_health ==
    ops < MaxOps /\ \E service_name \in RequestNames, resp \in HealthResps :
                        HealthCall(service_name, resp)

mcp_query ==
    ops < MaxOps /\ \E chat_key \in Chats, service_name \in RequestNames,
                       query \in Queries, resp \in CallResps :
                        QueryCall(chat_key, service_name, query, resp)

mcp_execute_tool ==
    ops < MaxOps /\ \E service_name \in RequestNames, tool_name \in ToolNames,
                       resps \in ToolResps :
                        ToolCall(service_name, tool_name, resps)

mcp_get_resource ==
    ops < MaxOps /\ \E service_name \in RequestNames, resource_path \in ResourcePaths,
                       exists \in BOOLEAN :
                        ResourceCall(service_name, resource_path, exists)

clean_up == ops < MaxOps /\ CleanUpCall

Next ==
    \/ EditConfig
    \/ Tick
    \/ init_plugin
    \/ mcp_prompt_inject
    \/ mcp_list_services
    \/ mcp_check_health
    \/ mcp_query
    \/ mcp_execute_tool
    \/ mcp_get_resource
    \/ clean_up

Spec == Init /\ [][Next]_vars

\* The entry points that keep the servers' health up to date, with the cache
\* setting they never read left at its default.
NextHealth ==
    \/ EditConfig
    \/ Tick
    \/ init_plugin
    \/ mcp_prompt_inject
    \/ mcp_list_services
    \/ mcp_check_health
    \/ clean_up

InitHealth == Init /\ CACHE_EXPIRY = 0

SpecHealth == InitHealth /\ [][NextHealth]_vars

\* The entry points that serve the agent's requests, with the health-check
\* setting they never read fixed.
NextInvoke ==
    \/ EditConfig
    \/ Tick
    \/ init_plugin
    \/ mcp_query
    \/ mcp_execute_tool
    \/ mcp_get_resource
    \/ clean_up

InitInvoke == Init /\ HEALTH_CHECK_INTERVAL = 0

SpecInvoke == InitInvoke /\ [][NextInvoke]_vars

\* The scenario of a reload: the agent queries from one chat, the user edits
\* the configuration, the host loads the plugin again, the agent repeats its
\* query.  Servers that are asked answer 200.
MaxReloadOps == 3

ReloadEdit == ops < MaxReloadOps /\ \E text \in ConfigTexts : EditTo(text)

ReloadInit == ops < MaxReloadOps /\ \E hresp \in [Names -> {"200_json"}] : InitCall(hresp)

ReloadQuery ==
    ops < MaxReloadOps /\ \E service_name \in RequestNames :
                              QueryCall("c1", service_name, "q1", "ok")

NextReload ==
    \/ ReloadEdit
    \/ ReloadInit
    \/ ReloadQuery

SpecReload == InitInvoke /\ [][NextReload]_vars

\* The same scenario with the host unloading the plugin at any point.
ReloadCleanUp == ops < MaxReloadOps /\ CleanUpCall

NextUnload ==
    \/ ReloadEdit
    \/ ReloadInit
    \/ ReloadQuery
    \/ ReloadCleanUp

SpecUnload == InitInvoke /\ [][NextUnload]_vars

\* --------------------------------------------------------------- dispatch
Requests ==
    {InvocationRequest("a", "t1", "ok", <<"text", "unknown", "image">>),
     InvocationRequest("a", "t1", "ok", <<>>),
     InvocationRequest("a", "t2", "tool_error", <<>>),
     InvocationRequest("a", "t2", "raises", <<>>),
     InvocationRequest("z", "t1", "ok", <<"text">>),
     InvocationRequest("", "t1", "ok", <<"text">>)}

Batches == UNION {[1..n -> Requests] : n \in 1..MaxBatch}

DispatchCall(requests, reachable) ==
    LET applied == Reconcile(registry, fingerprint, MCP_CONFIG_JSON, reachable)
        done == DispatchLoop(requests, 1, applied.registry, <<>>, <<>>)
    IN  /\ registry' = applied.registry
        /\ fingerprint' = applied.fingerprint
        /\ UNCHANGED globals
        /\ Recorded([NoCall EXCEPT !.op = "dispatch", !.batch = requests,
                                   !.segments = done.segments,
                                   !.called = done.called])

dispatch ==
    ops < MaxDispatches /\ \E requests \in Batches, reachable \in SUBSET Names :
                               DispatchCall(requests, reachable)

NextDispatch == dispatch

InitDispatch == Init /\ CACHE_EXPIRY = 0 /\ HEALTH_CHECK_INTERVAL = 0

SpecDispatch == InitDispatch /\ [][NextDispatch]_vars

\* ------------------------------------------------------------ connections
\* The operations of a ServerConnection, on the connection kept for server n.
\* An operation is one step, except connect(), which is suspended between
\* opening the transport and the end of the handshake; while it is, nothing
\* else is started on that connection.
Operated(n, op, conn, raised) ==
    /\ registry' = [registry EXCEPT ![n] = conn]
    /\ last' = [NoCall EXCEPT !.op = op, !.service = n, !.raised = raised,
                              !.pre_conn = registry[n]]
    /\ UNCHANGED <<settings, globals, fingerprint, running, clock, ops>>

ConnConnect ==
    \E n \in Names :
        /\ registry[n].state \in {"Disconnected", "Failed"}
        /\ Operated(n, "connect", ConnectBegin(registry[n]), FALSE)

ConnHandshake ==
    \E n \in Names, handshake_ok \in BOOLEAN :
        /\ registry[n].state = "Connecting"
        /\ Operated(n, "handshake",
                    ConnectEnd(registry[n], handshake_ok, ReportedName(n)),
                    ~handshake_ok)

ConnLoadTools ==
    \E n \in Names, load_ok \in BOOLEAN, catalog \in Catalogs :
        LET r == load_tools(registry[n], load_ok, catalog)
        IN  /\ registry[n].state # "Connecting"
            /\ Operated(n, "load_tools", r.conn, r.raised)

ConnCallTool ==
    \E n \in Names, first \in Attempts, second \in Attempts, release \in Releases,
       handshake_ok \in BOOLEAN, load_ok \in BOOLEAN, catalog \in Catalogs :
        LET r == call_tool(registry[n], first, second, release, handshake_ok,
                           ReportedName(n), load_ok, catalog)
        IN  /\ registry[n].state # "Connecting"
            /\ Operated(n, "call_tool", r.conn, r.raised)

ConnClose ==
    \E n \in Names, release \in Releases :
        LET r == close(registry[n], release)
        IN  /\ registry[n].state # "Connecting"
            /\ Operated(n, "close", r.conn, r.raised)

ConnReconnect ==
    \E n \in Names, release \in Releases, handshake_ok \in BOOLEAN,
       load_ok \in BOOLEAN, catalog \in Catalogs :
        LET r == reconnect(registry[n], release, handshake_ok, ReportedName(n),
                           load_ok, catalog)
        IN  /\ registry[n].state # "Connecting"
            /\ Operated(n, "reconnect", r.conn, r.raised)

NextConnection ==
    \/ ConnConnect
    \/ ConnHandshake
    \/ ConnLoadTools
    \/ ConnCallTool
    \/ ConnClose
    \/ ConnReconnect

InitConnection ==
    Init /\ MCP_CONFIG_JSON = DefaultConfigText /\ CACHE_EXPIRY = 0
         /\ HEALTH_CHECK_INTERVAL = 0

SpecConnection == InitConnection /\ [][NextConnection]_vars

\* ------------------------------------------------- interleaved refreshes
\* mcp_prompt_inject and mcp_list_services run as coroutines on one event
\* loop: a coroutine runs until it awaits, and the only await of the refresh
\* loop is the request inside check_service_health.  The status is written
\* when the answer is in.
Stale(status, name, now, interval) ==
    ~status[name].present \/ now - status[name].last_check > interval

\* The refresh loop up to its next await: servers that need no check are
\* passed over.
RECURSIVE SkipFresh(_, _, _, _)
SkipFresh(queue, status, now, interval) ==
    IF queue = <<>> THEN <<>>
    ELSE IF Stale(status, Head(queue), now, interval) THEN queue
    ELSE SkipFresh(Tail(queue), status, now, interval)

ServerNames(servers) == [i \in DOMAIN servers |-> servers[i].name]

OthersSuspended(t) == {u \in Tasks \ {t} : tasks[u].pc = "awaiting"}

\* Coroutine t goes on with the servers in queue: it sends the request for
\* the first one and is suspended, or it is through.
Continue(t, op, queue) ==
    IF queue = <<>>
    THEN /\ tasks' = [tasks EXCEPT ![t] = [pc |-> "done", op |-> op, queue |-> <<>>]]
         /\ UNCHANGED health_log
    ELSE /\ tasks' = [tasks EXCEPT ![t] = [pc |-> "awaiting", op |-> op, queue |-> queue]]
         /\ health_log' = Append(health_log,
                                 [server |-> Head(queue), at |-> clock, task |-> t,
                                  during |-> OthersSuspended(t)])

TaskStart ==
    \E t \in Tasks, op \in {"mcp_prompt_inject", "mcp_list_services"} :
        LET sc == EnsureParsed(server_configs, MCP_CONFIG_JSON)
            active_servers == SelectSeq(sc, IsEnabled)
            refreshes == op = "mcp_list_services" \/ HEALTH_CHECK_INTERVAL > 0
            queue == IF refreshes
                     THEN SkipFresh(ServerNames(active_servers), service_status,
                                    clock, HEALTH_CHECK_INTERVAL)
                     ELSE <<>>
        IN  /\ tasks[t].pc = "idle"
            /\ server_configs' = sc
            /\ Continue(t, op, queue)
            /\ UNCHANGED <<settings, service_status, mcp_cache, core, clock, ops, last>>

TaskResume ==
    \E t \in Tasks, resp \in HealthResps :
        LET st == check_service_health(
                      [server_configs |-> server_configs,
                       service_status |-> service_status, sent |-> <<>>],
                      MCP_CONFIG_JSON, Head(tasks[t].queue), resp, clock)
        IN  /\ tasks[t].pc = "awaiting"
            /\ server_configs' = st.server_configs
            /\ service_status' = st.service_status
            /\ Continue(t, tasks[t].op,
                        SkipFresh(Tail(tasks[t].queue), st.service_status, clock,
                                  HEALTH_CHECK_INTERVAL))
            /\ UNCHANGED <<settings, mcp_cache, core, clock, ops, last>>

TaskTick ==
    /\ clock < MaxTime
    /\ clock' = clock + 1
    /\ UNCHANGED <<settings, globals, core, running, ops, last>>

NextRace ==
    \/ TaskStart
    \/ TaskResume
    \/ TaskTick

InitRace == Init /\ CACHE_EXPIRY = 0 /\ HEALTH_CHECK_INTERVAL = 1

SpecRace == InitRace /\ [][NextRace]_vars

\* ------------------------------------------------ cleanup during a call
\* An mcp_query or a check_service_health call (reached through
\* mcp_check_health) as a coroutine: it runs up to its HTTP request, is
\* suspended there, and stores its result when the answer is in.  clean_up
\* has no await and may run while calls are suspended.  A call in flight
\* remembers what it read before the await: the server, the cache key and
\* the time it took for the timestamp.  started_before_cleanup and stands
\* are bookkeeping: whether clean_up ran while the call was suspended, and
\* whether what the call stored has not been stored over by another call.
Flight(pc, op, key, server_config, started, early, raised, stands) ==
    [pc |-> pc, op |-> op, queue |-> <<>>, key |-> key,
     server_config |-> server_config, started |-> started,
     started_before_cleanup |-> early, raised |-> raised, stands |-> stands]

\* Call t stores under key: what other finished calls stored there is gone.
StoredOver(t, op, key, mine) ==
    [u \in Tasks |->
        IF u = t THEN mine
        ELSE IF tasks[u].pc = "done" /\ tasks[u].op = op /\ tasks[u].key = key
        THEN [tasks[u] EXCEPT !.stands = FALSE]
        ELSE tasks[u]]

\* mcp_query up to its await: a fresh cache entry is returned at once, an
\* unknown service is answered (and cached) at once, otherwise the request
\* is sent.
FlightQueryStart ==
    \E t \in Tasks, chat_key \in Chats, service_name \in RequestNames, query \in Queries :
        LET key == <<chat_key, service_name, query>>
            cache_entry == mcp_cache[key]
            prep == _prepare_mcp_request(server_configs, MCP_CONFIG_JSON, service_name)
            hit == /\ cache_entry.present
                   /\ CACHE_EXPIRY > 0
                   /\ clock - cache_entry.timestamp < CACHE_EXPIRY
        IN  /\ tasks[t].pc = "idle"
            /\ IF hit
               THEN /\ tasks' = [tasks EXCEPT ![t] =
                           Flight("done", "mcp_query", key, NoServer, clock,
                                  FALSE, FALSE, FALSE)]
                    /\ UNCHANGED globals
               ELSE IF ~prep.server_config.valid
               THEN /\ tasks' = StoredOver(t, "mcp_query", key,
                           Flight("done", "mcp_query", key, NoServer, clock,
                                  FALSE, FALSE, TRUE))
                    /\ server_configs' = prep.server_configs
                    /\ mcp_cache' = [mcp_cache EXCEPT ![key] =
                           [present |-> TRUE,
                            result |-> Body("not_found", service_name, ""),
                            timestamp |-> clock]]
                    /\ UNCHANGED service_status
               ELSE /\ tasks' = [tasks EXCEPT ![t] =
                           Flight("awaiting", "mcp_query", key, prep.server_config,
                                  clock, FALSE, FALSE, FALSE)]
                    /\ server_configs' = prep.server_configs
                    /\ UNCHANGED <<service_status, mcp_cache>>
            /\ UNCHANGED <<settings, core, health_log, clock, ops, last>>

\* mcp_query after its await: the result is stored with the time read at the
\* start of the call.
FlightQueryResume ==
    \E t \in Tasks, resp \in CallResps :
        LET call == tasks[t]
            done == ExceptClauses(
                        QueryOutcome(call.server_config, call.key[2], call.key[3], resp),
                        call.key[2])
        IN  /\ call.pc = "awaiting"
            /\ call.op = "mcp_query"
            /\ mcp_cache' = [mcp_cache EXCEPT ![call.key] =
                   [present |-> TRUE, result |-> done.body, timestamp |-> call.started]]
            /\ tasks' = StoredOver(t, "mcp_query", call.key,
                   [call EXCEPT !.pc = "done", !.raised = done.raised, !.stands = TRUE])
            /\ UNCHANGED <<settings, server_configs, service_status, core, health_log,
                           clock, ops, last>>

\* check_service_health up to its await: an unconfigured name gets its error
\* status at once, otherwise the request is sent.
FlightHealthStart ==
    \E t \in Tasks, service_name \in RequestNames :
        LET sc == EnsureParsed(server_configs, MCP_CONFIG_JSON)
            server_config == FirstNamed(sc, service_name, FALSE)
            key == <<"", service_name, "">>
        IN  /\ tasks[t].pc = "idle"
            /\ server_configs' = sc
            /\ IF ~server_config.valid
               THEN /\ tasks' = StoredOver(t, "check_service_health", key,
                           Flight("done", "check_service_health", key, NoServer,
                                  clock, FALSE, FALSE, TRUE))
                    /\ service_status' = [service_status EXCEPT ![service_name] =
                           MCPServiceStatus("unknown", "error", clock, "not_found")]
               ELSE /\ tasks' = [tasks EXCEPT ![t] =
                           Flight("awaiting", "check_service_health", key,
                                  server_config, clock, FALSE, FALSE, FALSE)]
                    /\ UNCHANGED service_status
            /\ UNCHANGED <<settings, mcp_cache, core, health_log, clock, ops, last>>

\* check_service_health after its await: the status is built from the answer
\* and the server found before the await, and stored.
FlightHealthResume ==
    \E t \in Tasks, resp \in HealthResps :
        LET call == tasks[t]
            st == check_service_health(
                      [server_configs |-> <<call.server_config>>,
                       service_status |-> service_status, sent |-> <<>>],
                      MCP_CONFIG_JSON, call.key[2], resp, clock)
        IN  /\ call.pc = "awaiting"
            /\ call.op = "check_service_health"
            /\ service_status' = st.service_status
            /\ tasks' = StoredOver(t, "check_service_health", call.key,
                   [call EXCEPT !.pc = "done", !.stands = TRUE])
            /\ UNCHANGED <<settings, server_configs, mcp_cache, core, health_log,
                           clock, ops, last>>

\* clean_up, run by the host while calls may be suspended.
FlightCleanUp ==
    /\ \E t \in Tasks : tasks[t].pc # "idle"
    /\ mcp_cache' = [k \in CacheKeys |-> NoEntry]
    /\ service_status' = [n \in RequestNames |-> NoStatus]
    /\ server_configs' = <<>>
    /\ tasks' = [t \in Tasks |->
                    IF tasks[t].pc = "awaiting"
                    THEN [tasks[t] EXCEPT !.started_before_cleanup = TRUE]
                    ELSE tasks[t]]
    /\ UNCHANGED <<settings, core, health_log, clock, ops, last>>

NextFlight ==
    \/ FlightQueryStart
    \/ FlightQueryResume
    \/ FlightHealthStart
    \/ FlightHealthResume
    \/ FlightCleanUp
    \/ TaskTick

InitFlight == Init /\ CACHE_EXPIRY = 2 /\ HEALTH_CHECK_INTERVAL = 0

SpecFlight == InitFlight /\ [][NextFlight]_vars

\* ------------------------------------------------------- queries of chats
\* The agent queries from several chats, with caching on: the same or another
\* query text, to the same or another service, answered or not by the server.
MaxCacheOps == 3

CacheQueries == Queries \cup {"q2"}

CacheSlots == Chats \X RequestNames \X CacheQueries

CacheResps == {"ok", "status", "timeout"}

CacheQuery ==
    /\ ops < MaxCacheOps
    /\ \E chat_key \in Chats, service_name \in RequestNames,
          query \in CacheQueries, resp \in CacheResps :
            QueryCall(chat_key, service_name, query, resp)

CacheTick == ops < MaxCacheOps /\ Pass

NextCache ==
    \/ CacheQuery
    \/ CacheTick

InitCache ==
    /\ MCP_CONFIG_JSON \in ConfigTexts
    /\ CACHE_EXPIRY = 2
    /\ HEALTH_CHECK_INTERVAL = 0
    /\ server_configs = <<>>
    /\ service_status = [n \in RequestNames |-> NoStatus]
    /\ mcp_cache = [k \in CacheSlots |-> NoEntry]
    /\ registry = [n \in Names |-> NoConnection]
    /\ fingerprint = NoFingerprint
    /\ clock = 0
    /\ ops = 0
    /\ last = NoCall
    /\ tasks = [t \in Tasks |-> IdleTask]
    /\ health_log = <<>>

SpecCache == InitCache /\ [][NextCache]_vars

\* ------------------------------------------------------------- properties
InvocationOps == {"mcp_query", "mcp_execute_tool", "mcp_get_resource"}

\* What the text a call read parses to.
ParsedText(text) == ParseEntries(text.servers).configs

\* C1: when the configuration text fails to parse, the applied server set is
\* left exactly as it was before the call, whatever it was, and the caller
\* gets an empty list: init_plugin then checks no server.
C1_ParseFailureKeepsServers ==
    (last.op \notin {"", "clean_up"} /\ last.text.kind # "object")
        => /\ server_configs = last.pre_configs
           /\ last.op = "init_plugin" => last.sent = <<>>

\* An unparsable text met a non-empty applied set, which survived.
C1_Witness ==
    /\ last.op = "init_plugin"
    /\ last.text.kind \in {"invalid_json", "not_object", "no_servers"}
    /\ last.pre_configs # <<>>
    /\ server_configs = last.pre_configs

\* C2: every tool invocation and every prompt build works on the server set of
\* the configuration text as it is when the call is made (a query answered
\* from the cache looks no server up and is left aside).
C2_ReconcilesFirst ==
    (/\ last.op \in InvocationOps \cup {"mcp_prompt_inject"}
     /\ last.wrap # "cached"
     /\ last.text.kind = "object")
        => server_configs = ParsedText(last.text)

\* C3: a second init_plugin in a row with the same configuration text contacts
\* no server and leaves the applied server set unchanged.
C3_InitTwiceNoContact ==
    [][(/\ last.op = "init_plugin"
        /\ MCP_CONFIG_JSON = last.text
        /\ ops' = ops + 1
        /\ last'.op = "init_plugin")
          => (last'.sent = <<>> /\ server_configs' = server_configs)]_vars

\* C4: no call ever sends a request to a server whose descriptor is disabled.
C4_DisabledNeverContacted ==
    \A i \in DOMAIN last.sent : last.sent[i].enabled

\* C5: a query, tool execution or resource lookup naming a server that the
\* applied set does not hold, or holds disabled, returns one text saying that
\* the service was not found, and sends no request.
C5_UnknownServerError ==
    (last.op \in InvocationOps /\ ~FirstNamed(server_configs, last.service, TRUE).valid)
        => /\ last.body = Body("not_found", last.service, "")
           /\ last.sent = <<>>

\* C6: query, tool execution and resource lookup never raise; an unknown
\* server, a status other than 200, a timeout, a connection error, an
\* undecodable body and an oversized answer each come back as a text: the
\* error text of that failure, or for an oversized tool answer the answer.
C6_NeverRaises ==
    last.op \in InvocationOps =>
        /\ ~last.raised
        /\ last.wrap \in {"query", "cached", "tool", "resource"}
        /\ last.body.code # ""
        /\ (last.wrap # "cached" /\ ~FirstNamed(server_configs, last.service, TRUE).valid)
              => last.body.code = "not_found"
        /\ last.sent # <<>> =>
              CASE last.resps[1] = "ok" -> last.body.code = "result"
                [] last.resps[1] = "status" -> last.body.code = "status_code"
                [] last.resps[1] = "timeout" -> last.body.code = "timeout"
                [] last.resps[1] = "closed" -> last.body.code = "connect_failed"
                [] last.resps[1] = "malformed" -> last.body.code = "exception"
                [] OTHER -> last.body.code = IF last.op = "mcp_query" THEN "too_large"
                                             ELSE "result"

\* A body that cannot be decoded was answered with the error text.
C6_Witness ==
    /\ last.op = "mcp_query"
    /\ last.resps = <<"malformed">>
    /\ ~last.raised
    /\ last.body.code = "exception"

\* Sessions opened after the first within one call.
Reconnects(call) == IF call.clients > 0 THEN call.clients - 1 ELSE 0

FailedResps == {"status", "timeout", "closed", "malformed"}

\* C8: one tool execution invokes the remote tool at most twice and reconnects
\* at most once; after a failure other than a closed stream it neither
\* reconnects nor retries; and when the stream is closed on every attempt the
\* caller gets the failure.
C8_RetryBounded ==
    last.op = "mcp_execute_tool" =>
        /\ Len(last.sent) <= 2
        /\ Reconnects(last) <= 1
        /\ (last.sent # <<>> /\ last.resps[1] \in FailedResps \ {"closed"})
              => (Len(last.sent) = 1 /\ Reconnects(last) = 0)
        /\ (last.sent # <<>> /\ last.resps = <<"closed", "closed">>)
              => last.body.code = "connect_failed"

\* A tool execution timed out and was not tried again.
C8_Witness ==
    /\ last.op = "mcp_execute_tool"
    /\ last.resps = <<"timeout", "ok">>
    /\ Len(last.sent) = 1
    /\ last.body.code = "timeout"

\* C9: a tool execution whose first attempt finds the stream closed and whose
\* second attempt would succeed returns the successful result, having
\* reconnected exactly once between the two attempts.
C9_TransientRecovery ==
    (last.op = "mcp_execute_tool" /\ last.resps = <<"closed", "ok">>)
        => /\ last.body.code = "result"
           /\ Len(last.sent) = 2
           /\ Reconnects(last) = 1

\* C10: init_plugin provisions every enabled server of the text: an entry that
\* fails validation, or a server that cannot be reached, does not keep any
\* other enabled server from being contacted and recorded.
C10_ProvisioningIsolated ==
    (last.op = "init_plugin" /\ last.text.kind = "object") =>
        \A i \in DOMAIN last.text.servers :
            LET server == last.text.servers[i]
            IN  (server.valid /\ server.enabled) =>
                    /\ \E j \in DOMAIN last.sent :
                          /\ last.sent[j].server = server.name
                          /\ last.sent[j].path = "/health"
                    /\ service_status[server.name].present
                    /\ service_status[server.name].last_check = last.at

\* An entry failed validation, or a server was out of reach, and another
\* server of the same text was provisioned all the same.
C10_Witness ==
    /\ last.op = "init_plugin"
    /\ \/ /\ last.text.servers = <<BadServerData, ServerData("b", TRUE)>>
          /\ service_status["b"].status = "online"
       \/ /\ Len(last.text.servers) = 2
          /\ service_status["a"].status = "offline"
          /\ service_status["a"].last_check = last.at
          /\ service_status["b"].status = "online"
          /\ service_status["b"].last_check = last.at
    /\ \E j \in DOMAIN last.sent : last.sent[j].server = "b"

\* Whether request number i of the batch fails, given the registry it meets.
Fails(request, reg) ==
    Malformed(request) \/ ~Known(request, reg) \/ request.status # "ok"

SegmentsOf(i) == SelectSeq(last.segments, LAMBDA seg : seg.req = i)

\* C7: the output of a batch is the concatenation, in request order, of one run
\* of segments per request; a failing request contributes exactly one error
\* segment and a succeeding one its normalized content; no failure keeps a
\* later request from being executed.
C7_BatchIsolation ==
    last.op = "dispatch" =>
        /\ \A k, l \in DOMAIN last.segments :
              k < l => last.segments[k].req <= last.segments[l].req
        /\ \A i \in DOMAIN last.batch :
              IF Fails(last.batch[i], registry)
              THEN /\ Len(SegmentsOf(i)) = 1
                   /\ SegmentsOf(i)[1].error
              ELSE /\ Len(SegmentsOf(i)) = Len(NormalizeAll(last.batch[i].content))
                   /\ \A k \in DOMAIN SegmentsOf(i) : ~SegmentsOf(i)[k].error
        /\ \A i \in DOMAIN last.batch :
              (~Malformed(last.batch[i]) /\ Known(last.batch[i], registry))
                  => \E k \in DOMAIN last.called : last.called[k] = i

\* A batch of three whose second request names an unknown server: the first
\* and the third are executed and their segments surround the one error.
C7_Witness ==
    /\ last.op = "dispatch"
    /\ Len(last.batch) = 3
    /\ last.batch[2].server_name = "z"
    /\ last.called = <<1, 3>>
    /\ Len(last.segments) = 5
    /\ last.segments[3] = Segment(2, "text", TRUE)
    /\ last.segments[5] = Segment(3, "image", FALSE)

\* Nothing is left of the servers, their statuses and the cached results.
Drained ==
    /\ server_configs = <<>>
    /\ \A n \in RequestNames : ~service_status[n].present
    /\ \A k \in CacheKeys : ~mcp_cache[k].present

\* C11: clean_up leaves no server, no status and no cached result behind, and
\* the init_plugin that follows it provisions every enabled server of the text
\* again, whether or not the text is the one applied before.
C11_CleanupDrains ==
    [][/\ last'.op = "clean_up" => Drained'
       /\ (last.op = "clean_up" /\ last'.op = "init_plugin"
                                /\ last'.text.kind = "object") =>
              /\ server_configs' = ParsedText(last'.text)
              /\ \A i \in DOMAIN server_configs' :
                    server_configs'[i].enabled =>
                        /\ \E j \in DOMAIN last'.sent :
                              last'.sent[j].server = server_configs'[i].name
                        /\ service_status'[server_configs'[i].name].present]_vars

\* The plugin was unloaded with servers applied, and then loaded again: the
\* server is contacted once more.
C11_Witness ==
    /\ ops = MaxReloadOps
    /\ last.op = "init_plugin"
    /\ last.pre_configs = <<>>
    /\ last.sent # <<>>
    /\ service_status["a"].present

\* C12: closing a connection that is already closed changes nothing and raises
\* nothing, whatever releasing resources would have run into.
C12_CloseIdempotent ==
    (last.op = "close" /\ ~last.pre_conn.session) =>
        /\ registry[last.service] = last.pre_conn
        /\ ~last.raised

\* A connection that had been connected was closed, and then closed again.
C12_Witness ==
    /\ last.op = "close"
    /\ last.pre_conn.state = "Disconnected"
    /\ last.pre_conn.display_name # ""
    /\ registry[last.service].state = "Disconnected"

\* C13: a connection holds a session handle exactly when it is Connected, and
\* it has tools only if it has reached Connected, where load_tools stored them.
C13_SessionIffConnected ==
    \A n \in Names :
        /\ registry[n].session <=> registry[n].state = "Connected"
        /\ registry[n].tools # {} => registry[n].display_name # ""

\* A connection lost its session after its tools were loaded, and another
\* failed its handshake and holds neither session nor tools.
C13_Witness ==
    /\ registry["a"].state = "Disconnected"
    /\ registry["a"].tools = {"t1", "t2"}
    /\ ~registry["a"].session
    /\ registry["b"].state = "Failed"
    /\ registry["b"].tools = {}

\* C14 as stated: no step takes a connection out of Failed.
C14_FailedAbsorbing ==
    [][\A n \in Names :
          registry[n].state = "Failed" => registry'[n].state = "Failed"]_vars

\* C14, amended: close, load_tools and call_tool leave a Failed connection
\* Failed; only connect(), also as part of reconnect(), takes it out of Failed.
C14_FailedLeftOnlyByConnect ==
    [][\A n \in Names :
          (registry[n].state = "Failed" /\ last'.op \notin {"connect", "reconnect"})
              => registry'[n] = registry[n]]_vars

\* close, load_tools or call_tool was tried on a connection whose handshake
\* had failed.
C14_Witness ==
    /\ last.op \in {"close", "load_tools", "call_tool"}
    /\ last.pre_conn.state = "Failed"
    /\ registry[last.service].state = "Failed"

\* C15: with HEALTH_CHECK_INTERVAL = 0 neither init_plugin nor
\* mcp_prompt_inject nor mcp_list_services sends a request to any server.
C15_NoHealthCheckAtZero ==
    (/\ HEALTH_CHECK_INTERVAL = 0
     /\ last.op \in {"init_plugin", "mcp_prompt_inject", "mcp_list_services"})
        => last.sent = <<>>

\* The enabled server a call's service name stands for, if there is one.
ServerOf(call) == FirstNamed(server_configs, call.service, TRUE)

\* C16: a query is answered from the cache only when CACHE_EXPIRY > 0 and the
\* entry is younger than CACHE_EXPIRY; with CACHE_EXPIRY = 0 every query for a
\* known enabled service sends a request and no result is kept.
C16_CacheOnlyWhenEnabled ==
    last.op = "mcp_query" =>
        /\ last.wrap = "cached" =>
              /\ CACHE_EXPIRY > 0
              /\ last.pre_cache.present
              /\ last.at - last.pre_cache.timestamp < CACHE_EXPIRY
        /\ CACHE_EXPIRY = 0 =>
              /\ ServerOf(last).valid => Len(last.sent) = 1
              /\ \A k \in CacheKeys : ~mcp_cache[k].present

\* C17: an answer larger than MAX_RESPONSE_SIZE comes back as a result cut to
\* the limit, from a query and from a tool execution alike.
C17_OversizedTruncated ==
    (/\ last.op \in {"mcp_query", "mcp_execute_tool"}
     /\ last.resps # <<>>
     /\ last.resps[1] = "oversized")
        => /\ last.body.code = "result"
           /\ last.size = "at_limit"

\* C18: after a health check of a service, the stored status is the returned
\* one; it is online exactly when the server answered 200, parsable or not,
\* error when it answered another code or the name is not configured (then
\* nothing is sent), and offline exactly when the request raised.
C18_HealthStatusMapping ==
    last.op = "mcp_check_health" =>
        LET stored == service_status[last.service]
            answered(r) == last.resps # <<>> /\ last.resps[1] = r
        IN  /\ stored.present
            /\ stored.status = last.body.code
            /\ stored.error = last.body.data
            /\ stored.last_check = last.at
            /\ stored.status = "online" <=> (answered("200_json") \/ answered("200_unparsable"))
            /\ stored.status = "offline" <=> answered("raise")
            /\ (answered("500") \/ last.sent = <<>>) => stored.status = "error"
            /\ FirstNamed(server_configs, last.service, FALSE).valid <=> Len(last.sent) = 1

\* A server answered 200 with a body that cannot be parsed and counts as online.
C18_Witness ==
    /\ last.op = "mcp_check_health"
    /\ last.resps = <<"200_unparsable">>
    /\ service_status[last.service].status = "online"
    /\ service_status[last.service].error = "unparsable"

\* C19: for an enabled server with a non-empty tools list, a tool outside the
\* list gets the unsupported-tool error and no request; for an enabled server
\* with an empty tools list any tool name goes to the server in one request.
C19_ToolAllowList ==
    (last.op = "mcp_execute_tool" /\ ServerOf(last).valid) =>
        /\ (ServerOf(last).tools # {} /\ last.tool \notin ServerOf(last).tools) =>
              /\ last.body = Body("unsupported_tool", last.service, last.tool)
              /\ last.sent = <<>>
        /\ ServerOf(last).tools = {} =>
              /\ Len(last.sent) = 1
              /\ last.sent[1] = Request(ServerOf(last), "/execute")
              /\ last.body.code # "unsupported_tool"

\* A tool outside the allow-list of "a" was refused.
C19_Witness ==
    /\ last.op = "mcp_execute_tool"
    /\ last.service = "a"
    /\ last.tool = "t2"
    /\ ServerOf(last).tools = {"t1"}
    /\ last.body.code = "unsupported_tool"
    /\ last.sent = <<>>

\* C20: with a positive interval, two health checks that prompt builds and
\* service listings send to the same server are at least
\* HEALTH_CHECK_INTERVAL apart, however the calls interleave.
C20_HealthChecksSpaced ==
    HEALTH_CHECK_INTERVAL > 0 =>
        \A i, j \in DOMAIN health_log :
            (i < j /\ health_log[i].server = health_log[j].server)
                => health_log[j].at - health_log[i].at >= HEALTH_CHECK_INTERVAL

\* What a finished call has left in mcp_cache or service_status, if it is
\* still there.
LeftBy(call) ==
    /\ call.pc = "done"
    /\ call.stands
    /\ IF call.op = "mcp_query" THEN mcp_cache[call.key].present
       ELSE service_status[call.key[2]].present

\* C21: a call that was suspended on its request while clean_up ran finishes
\* without raising, and once no call is in flight nothing that such a call
\* stored is in mcp_cache or service_status.
C21_CleanupDuringCall ==
    /\ \A t \in Tasks : tasks[t].pc = "done" => ~tasks[t].raised
    /\ (\A t \in Tasks : tasks[t].pc # "awaiting") =>
          \A t \in Tasks :
              (tasks[t].pc = "done" /\ tasks[t].started_before_cleanup)
                  => ~LeftBy(tasks[t])

\* The cache slot of a call: its chat key, its service name, its query text.
SlotOf(call) == <<call.chat, call.service, call.query>>

\* C22: cache isolation.  A result that mcp_query serves from the cache is
\* the one held in the slot of the call's own chat key, service name and
\* query text, and a slot is only ever filled by an mcp_query call with that
\* chat key, service name and query text, with the result that call obtained
\* from the service: so what is served from the cache was produced by an
\* earlier mcp_query with the same three, never in another chat or for
\* another service.
C22_CacheIsolation ==
    [][ /\ (ops' = ops + 1 /\ last'.op = "mcp_query" /\ last'.wrap = "cached")
            => /\ mcp_cache[SlotOf(last')].present
               /\ last'.body = mcp_cache[SlotOf(last')].result
               /\ mcp_cache' = mcp_cache
        /\ \A k \in DOMAIN mcp_cache :
              (mcp_cache'[k] # mcp_cache[k] /\ mcp_cache'[k].present)
                  => /\ last'.op = "mcp_query"
                     /\ last'.wrap = "query"
                     /\ SlotOf(last') = k
                     /\ mcp_cache'[k].result = last'.body
      ]_vars

\* A cached answer is served in one chat while the other chat holds a
\* different result for the same service and the same query text, and the
\* same chat holds none for the other query text.
C22_Witness ==
    /\ last.op = "mcp_query"
    /\ last.wrap = "cached"
    /\ last.body.code = "result"
    /\ \E other \in Chats \ {last.chat} :
          /\ mcp_cache[<<other, last.service, last.query>>].present
          /\ mcp_cache[<<other, last.service, last.query>>].result # last.body
    /\ \E query \in CacheQueries \ {last.query} :
          ~mcp_cache[<<last.chat, last.service, query>>].present

====
